---- MODULE Spec2Model ----
(***************************************************************************)
(* Model of the message-processing pipeline of the chat agent              *)
(* (src/app/agents/chat_agent.py) and of the Streamlit shell that drives   *)
(* it (src/frontend/streamlit_app.py).                                     *)
(*                                                                         *)
(* Python str values are TLA+ strings; "+" and str.join are \o.  A Python  *)
(* dict is a function whose DOMAIN is the set of keys that are present.    *)
(* The external collaborators (memory store, document processor, Groq      *)
(* client) are nondeterministic: every call either raises or returns one   *)
(* of a small set of values.                                               *)
(***************************************************************************)
EXTENDS Integers, Sequences, FiniteSets, TLC

(***************************************************************************)
(* Bounds of the model                                                     *)
(***************************************************************************)
\* longest chunk list the document processor returns
MaxChunks == 2
\* longest message list handed directly to GroqChatModel._generate
MaxMsgs == 3
\* longest transcript of a UI session
MaxTranscript == 6

Threads == {"t1", "t2"}

(***************************************************************************)
(* Values                                                                  *)
(***************************************************************************)
None == "None"
\* the objects initialize() may be given: two stores and a collaborator
\* that does not expose get_relevant_context
Retrievers == {"storeA", "storeB", "nocap"}
UserTexts == {"Hello", "x"}
StoreTexts == {"", "Paris"}
ChunkTexts == {"a", "b"}
Completions == {"Hi there"}

BoundedSeq(S, n) == UNION {[1..k -> S] : k \in 0..n}

Document(text) == [page_content |-> text]
ChunkLists == BoundedSeq({Document(c) : c \in ChunkTexts}, MaxChunks)

\* what one call of a collaborator does: raise, or return a value
Raises == [raises |-> TRUE, value |-> ""]
Returns(v) == [raises |-> FALSE, value |-> v]
StoreOutcomes == {Raises} \cup {Returns(s) : s \in StoreTexts}
ProviderOutcomes == {Raises} \cup {Returns(c) : c \in Completions}
ChunkerOutcomes == {[raises |-> TRUE, docs |-> <<>>]}
                     \cup {[raises |-> FALSE, docs |-> d] : d \in ChunkLists}

\* LangChain message classes; "ChatMessage" stands for every BaseMessage
\* subclass other than the three _generate tests for
MessageTypes == {"SystemMessage", "HumanMessage", "AIMessage", "ChatMessage"}
SystemMessage(c) == [type |-> "SystemMessage", content |-> c]
HumanMessage(c) == [type |-> "HumanMessage", content |-> c]
AIMessage(c) == [type |-> "AIMessage", content |-> c]

(***************************************************************************)
(* Configuration and construction (ChatAgent.__init__)                     *)
(***************************************************************************)
ConfigKeys == {"api_key", "model", "temperature", "system_prompt"}
ConfigValues(k) ==
    CASE k = "api_key" -> {"", "k"}
      [] k = "model" -> {"llama3"}
      [] k = "temperature" -> {"0.2"}
      [] k = "system_prompt" -> {"sp"}
Configs ==
    UNION {{c \in [D -> {"", "k", "llama3", "0.2", "sp"}] :
               \A k \in D : c[k] \in ConfigValues(k)} : D \in SUBSET ConfigKeys}

DEFAULT_MODEL == "mixtral-8x7b-32768"
DEFAULT_TEMPERATURE == "0.7"
\* the opening words of the default prompt of lines 110-163
DEFAULT_SYSTEM_PROMPT == "You are an advanced multi-modal AI assistant"
FALLBACK_RESPONSE ==
    "I apologize, but I encountered an error processing your message. "
    \o "This might be due to API limits or connectivity issues. "
    \o "Please try again later or contact support if the issue persists."

\* dict.get(key) and dict.get(key, default)
DictGet(d, k, default) == IF k \in DOMAIN d THEN d[k] ELSE default
\* truth value of a str-or-None
Truthy(v) == v # None /\ v # ""

\* variant: only the presence of the key is tested
ApiKeyPresent(cfg) == "api_key" \in DOMAIN cfg
\* line 93: the api_key test that makes __init__ raise ValueError
ApiKeyConfigured(cfg) == Truthy(DictGet(cfg, "api_key", None))

\* GroqChatModel.__init__
GroqChatModel(api_key, model, temperature) ==
    [api_key |-> api_key, model |-> model, temperature |-> temperature]
NoLLM == GroqChatModel("", "", "")

\* lines 96-100: the adapter __init__ builds
InitLLM(cfg) ==
    GroqChatModel(DictGet(cfg, "api_key", None),
                  DictGet(cfg, "model", DEFAULT_MODEL),
                  DictGet(cfg, "temperature", DEFAULT_TEMPERATURE))
\* line 110
InitSystemPrompt(cfg) == DictGet(cfg, "system_prompt", DEFAULT_SYSTEM_PROMPT)

(***************************************************************************)
(* Model Client Adapter (GroqChatModel._generate)                          *)
(***************************************************************************)
\* variant: a final else branch that forwards any other class as a user turn
ConvertMessageKeepUnknown(msg) ==
    IF msg.type = "AIMessage" THEN <<[role |-> "assistant", content |-> msg.content]>>
    ELSE IF msg.type = "SystemMessage" THEN <<[role |-> "system", content |-> msg.content]>>
    ELSE <<[role |-> "user", content |-> msg.content]>>
\* lines 64-69: the isinstance chain; no branch for any other class
ConvertMessage(msg) ==
    IF msg.type = "HumanMessage" THEN <<[role |-> "user", content |-> msg.content]>>
    ELSE IF msg.type = "AIMessage" THEN <<[role |-> "assistant", content |-> msg.content]>>
    ELSE IF msg.type = "SystemMessage" THEN <<[role |-> "system", content |-> msg.content]>>
    ELSE <<>>

\* lines 62-69: the loop appending to chat_messages
RECURSIVE ConvertLoop(_, _, _)
ConvertLoop(messages, i, chat_messages) ==
    IF i > Len(messages) THEN chat_messages
    ELSE ConvertLoop(messages, i + 1, chat_messages \o ConvertMessage(messages[i]))
ConvertMessages(messages) == ConvertLoop(messages, 1, <<>>)

\* how many times _generate calls completions.create for one invocation
ProviderAttempts(outcome) == 1

\* lines 60-85: the request sent, the number of provider calls, and either
\* the AIMessage content returned or the provider's error re-raised
Generate(messages, outcome) ==
    [chat_messages |-> ConvertMessages(messages),
     calls |-> ProviderAttempts(outcome),
     raised |-> outcome.raises,
     logged |-> outcome.raises,
     content |-> IF outcome.raises THEN "" ELSE outcome.value]

(***************************************************************************)
(* Message pipeline (ChatAgent.process_message) - pure parts               *)
(***************************************************************************)
\* hasattr(self.memory, 'get_relevant_context')
HasGetRelevantContext(m) == m \in {"storeA", "storeB"}
\* truth value of the object bound to self.memory
MemoryTruthy(m) == m # None
\* variant: the hasattr operand left out
CapabilityCheckOmitted(m) == TRUE
\* line 191, second operand
CapabilityCheck(m) == HasGetRelevantContext(m)

\* str.join
RECURSIVE JoinLoop(_, _, _, _)
JoinLoop(sep, items, i, acc) ==
    IF i > Len(items) THEN acc
    ELSE JoinLoop(sep, items, i + 1,
                  IF i = 1 THEN items[i] ELSE acc \o sep \o items[i])
Join(sep, items) == JoinLoop(sep, items, 1, "")

\* variant: the context block appended after the user message
AssembleMessagesContextLast(sp, relevant_docs, message) ==
    LET messages1 == <<SystemMessage(sp), HumanMessage(message)>>
    IN  IF relevant_docs # <<>>
        THEN Append(messages1,
                    SystemMessage("Context:\n" \o
                        Join("\n", [i \in 1..Len(relevant_docs) |->
                                        relevant_docs[i].page_content])))
        ELSE messages1
\* lines 197-207
AssembleMessages(sp, relevant_docs, message) ==
    LET messages1 == <<SystemMessage(sp)>>
        messages2 ==
            IF relevant_docs # <<>>
            THEN Append(messages1,
                        SystemMessage("Context:\n" \o
                            Join("\n", [i \in 1..Len(relevant_docs) |->
                                            relevant_docs[i].page_content])))
            ELSE messages1
    IN  Append(messages2, HumanMessage(message))

\* lines 212-215 and 219-224
SuccessResult(content, relevant_docs) ==
    [response |-> content, source_documents |-> relevant_docs]
FallbackResult == [response |-> FALLBACK_RESPONSE, source_documents |-> <<>>]
NoResult == [response |-> "", source_documents |-> <<>>]

\* line 217: except Exception
ExceptionKinds == {"AttributeError", "StoreError", "ChunkerError", "ProviderError"}
\* variant: except clause naming only the provider's error
CatchesProviderOnly(e) == e = "ProviderError"
Catches(e) == e \in ExceptionKinds

(***************************************************************************)
(* Lifecycle (ChatAgent.initialize, ChatAgent.cleanup)                     *)
(***************************************************************************)
\* variant: a binding already present is kept
InitializeMemoryOnce(old, memory_manager) ==
    IF old = None THEN memory_manager ELSE old
\* line 171
InitializeMemory(old, memory_manager) == memory_manager
\* line 176
CleanupMemory(old) == None

(***************************************************************************)
(* State                                                                   *)
(***************************************************************************)
VARIABLES
    \* ChatAgent: the config given to __init__, whether __init__ returned an
    \* object, and the object's attributes
    config, constructed, llm, doc_processor, memory, system_prompt,
    \* process_message: each thread's position and the local variables of
    \* the call frames
    pc, locals,
    \* history of each call in progress (collaborator outcomes, call counts)
    obs,
    \* the most recent lifecycle call on the agent
    lastLifecycle,
    \* a direct invocation of GroqChatModel._generate
    gen,
    \* one Streamlit session: st.session_state and what the last run rendered
    session, ui

agentVars == <<config, constructed, llm, doc_processor, memory, system_prompt>>
callVars == <<pc, locals, obs>>
vars == <<config, constructed, llm, doc_processor, memory, system_prompt,
          pc, locals, obs, lastLifecycle, gen, session, ui>>

\* local variables of one process_message frame
NoLocals ==
    [message |-> "", context |-> "", relevant_docs |-> <<>>,
     messages |-> <<>>, result |-> NoResult]
NotCalled == [raises |-> FALSE, value |-> ""]
ChunkerNotCalled == [raises |-> FALSE, docs |-> <<>>]
NoObs ==
    [mem0 |-> None, lifecycle |-> FALSE, exc |-> "none", queried |-> None,
     store |-> NotCalled, chunker |-> ChunkerNotCalled, provider |-> NotCalled,
     storeCalls |-> 0, chunkerCalls |-> 0, providerCalls |-> 0, sent |-> <<>>]

\* variant: the locals kept on the agent object, one copy for all calls
FrameOnAgent(t) == "t1"
\* the frame holding thread t's local variables: one per call
Frame(t) == t

\* no direct _generate invocation yet
NoGen == [called |-> FALSE, messages |-> <<>>, outcome |-> NotCalled,
          chat_messages |-> <<>>, calls |-> 0, raised |-> FALSE,
          logged |-> FALSE, content |-> ""]
\* st.session_state of a new session: neither key is set
NoSession ==
    [has_messages |-> FALSE, messages |-> <<>>, has_agent |-> FALSE,
     agent |-> None]
\* nothing rendered yet; no initialisation attempted
NoUI == [rendered |-> FALSE, init_failed |-> FALSE,
         turn_after_failure |-> FALSE, call_after_failure |-> FALSE]

\* ChatAgent.__init__ (lines 90-163) applied to cfg
AgentInit(cfg) ==
    /\ config = cfg
    /\ constructed = ApiKeyConfigured(cfg)
    /\ llm = IF ApiKeyConfigured(cfg) THEN InitLLM(cfg) ELSE NoLLM
    /\ doc_processor = IF ApiKeyConfigured(cfg) THEN "DocumentProcessor" ELSE None
    /\ memory = None
    /\ system_prompt = IF ApiKeyConfigured(cfg) THEN InitSystemPrompt(cfg) ELSE ""

CallsInit ==
    /\ pc = [t \in Threads |-> "idle"]
    /\ locals = [t \in Threads |-> NoLocals]
    /\ obs = [t \in Threads |-> NoObs]
    /\ lastLifecycle = [op |-> "none", arg |-> None, prev |-> "none"]

Init ==
    /\ \E cfg \in Configs : AgentInit(cfg)
    /\ CallsInit
    /\ gen = NoGen
    /\ session = NoSession
    /\ ui = NoUI

(***************************************************************************)
(* Lifecycle actions                                                       *)
(***************************************************************************)
InFlight(t) == pc[t] \notin {"idle", "done", "raised"}
NoteLifecycle == [t \in Threads |->
                    IF InFlight(t) THEN [obs[t] EXCEPT !.lifecycle = TRUE] ELSE obs[t]]

Initialize(memory_manager) ==
    /\ constructed
    /\ memory' = InitializeMemory(memory, memory_manager)
    /\ lastLifecycle' = [op |-> "initialize", arg |-> memory_manager,
                         prev |-> lastLifecycle.op]
    /\ obs' = NoteLifecycle
    /\ UNCHANGED <<config, constructed, llm, doc_processor, system_prompt,
                   pc, locals, gen, session, ui>>

Cleanup ==
    /\ constructed
    /\ memory' = CleanupMemory(memory)
    /\ lastLifecycle' = [op |-> "cleanup", arg |-> None,
                         prev |-> lastLifecycle.op]
    /\ obs' = NoteLifecycle
    /\ UNCHANGED <<config, constructed, llm, doc_processor, system_prompt,
                   pc, locals, gen, session, ui>>

(***************************************************************************)
(* process_message, one step per access to the agent or a collaborator     *)
(***************************************************************************)
\* the except block of lines 217-224, or the exception leaving the call
Fail(t, e, o) ==
    /\ obs' = [obs EXCEPT ![t] = [o EXCEPT !.exc = e]]
    /\ IF Catches(e)
       THEN /\ pc' = [pc EXCEPT ![t] = "done"]
            /\ locals' = [locals EXCEPT ![Frame(t)].result = FallbackResult]
       ELSE /\ pc' = [pc EXCEPT ![t] = "raised"]
            /\ UNCHANGED locals

\* entry, line 190
Call(t, message) ==
    /\ constructed
    /\ pc[t] = "idle"
    /\ pc' = [pc EXCEPT ![t] = "test_memory"]
    /\ locals' = [locals EXCEPT ![Frame(t)] =
                     [NoLocals EXCEPT !.message = message]]
    /\ obs' = [obs EXCEPT ![t] = [NoObs EXCEPT !.mem0 = memory]]
    /\ UNCHANGED <<agentVars, lastLifecycle, gen, session, ui>>

\* line 191, first operand: self.memory
TestMemory(t) ==
    /\ pc[t] = "test_memory"
    /\ pc' = [pc EXCEPT ![t] = IF MemoryTruthy(memory) THEN "test_hasattr"
                                ELSE "assemble"]
    /\ UNCHANGED <<agentVars, locals, obs, lastLifecycle, gen, session, ui>>

\* line 191, second operand: hasattr(self.memory, 'get_relevant_context')
TestHasattr(t) ==
    /\ pc[t] = "test_hasattr"
    /\ pc' = [pc EXCEPT ![t] = IF CapabilityCheck(memory) THEN "query"
                                ELSE "assemble"]
    /\ UNCHANGED <<agentVars, locals, obs, lastLifecycle, gen, session, ui>>

\* lines 192-193: self.memory.get_relevant_context(message); if context
Query(t) ==
    /\ pc[t] = "query"
    /\ IF ~HasGetRelevantContext(memory)
       THEN Fail(t, "AttributeError", obs[t])
       ELSE \E outcome \in StoreOutcomes :
              LET o == [obs[t] EXCEPT !.store = outcome, !.queried = memory,
                                      !.storeCalls = @ + 1]
              IN  IF outcome.raises
                  THEN Fail(t, "StoreError", o)
                  ELSE /\ obs' = [obs EXCEPT ![t] = o]
                       /\ locals' = [locals EXCEPT
                                        ![Frame(t)].context = outcome.value]
                       /\ pc' = [pc EXCEPT ![t] =
                                    IF Truthy(outcome.value) THEN "chunk"
                                    ELSE "assemble"]
    /\ UNCHANGED <<agentVars, lastLifecycle, gen, session, ui>>

\* line 194: self.doc_processor.process_text(context)
Chunk(t) ==
    /\ pc[t] = "chunk"
    /\ \E outcome \in ChunkerOutcomes :
         LET o == [obs[t] EXCEPT !.chunker = outcome, !.chunkerCalls = @ + 1]
         IN  IF outcome.raises
             THEN Fail(t, "ChunkerError", o)
             ELSE /\ obs' = [obs EXCEPT ![t] = o]
                  /\ locals' = [locals EXCEPT
                                   ![Frame(t)].relevant_docs = outcome.docs]
                  /\ pc' = [pc EXCEPT ![t] = "assemble"]
    /\ UNCHANGED <<agentVars, lastLifecycle, gen, session, ui>>

\* lines 197-207
Assemble(t) ==
    /\ pc[t] = "assemble"
    /\ locals' = [locals EXCEPT ![Frame(t)].messages =
                     AssembleMessages(system_prompt,
                                      locals[Frame(t)].relevant_docs,
                                      locals[Frame(t)].message)]
    /\ pc' = [pc EXCEPT ![t] = "generate"]
    /\ UNCHANGED <<agentVars, obs, lastLifecycle, gen, session, ui>>

\* lines 210-215: self.llm._generate(messages) and the success return
GenerateResponse(t) ==
    /\ pc[t] = "generate"
    /\ \E outcome \in ProviderOutcomes :
         LET g == Generate(locals[Frame(t)].messages, outcome)
             o == [obs[t] EXCEPT !.provider = outcome, !.sent = g.chat_messages,
                                 !.providerCalls = @ + g.calls]
         IN  IF g.raised
             THEN Fail(t, "ProviderError", o)
             ELSE /\ obs' = [obs EXCEPT ![t] = o]
                  /\ locals' = [locals EXCEPT ![Frame(t)].result =
                                   SuccessResult(g.content,
                                                 locals[Frame(t)].relevant_docs)]
                  /\ pc' = [pc EXCEPT ![t] = "done"]
    /\ UNCHANGED <<agentVars, lastLifecycle, gen, session, ui>>

\* the caller takes the result; the thread is free for the next turn
Return(t) ==
    /\ pc[t] \in {"done", "raised"}
    /\ pc' = [pc EXCEPT ![t] = "idle"]
    /\ locals' = [locals EXCEPT ![Frame(t)] = NoLocals]
    /\ obs' = [obs EXCEPT ![t] = NoObs]
    /\ UNCHANGED <<agentVars, lastLifecycle, gen, session, ui>>

ProcessStep(t) ==
    \/ \E message \in UserTexts : Call(t, message)
    \/ TestMemory(t)
    \/ TestHasattr(t)
    \/ Query(t)
    \/ Chunk(t)
    \/ Assemble(t)
    \/ GenerateResponse(t)
    \/ Return(t)

\* one caller of process_message, with lifecycle calls from another thread
\* at any point of the call
Caller == "t1"
Next ==
    \/ \E r \in Retrievers : Initialize(r)
    \/ Cleanup
    \/ ProcessStep(Caller)

Spec == Init /\ [][Next]_vars

(***************************************************************************)
(* Concurrent turns on one agent, lifecycle calls only between turns       *)
(***************************************************************************)
Quiescent == \A t \in Threads : pc[t] = "idle"
InitializeBetweenTurns(r) == Quiescent /\ Initialize(r)
CleanupBetweenTurns == Quiescent /\ Cleanup

ConcConfigs == {c \in Configs : ApiKeyConfigured(c) /\ "model" \notin DOMAIN c
                                   /\ "temperature" \notin DOMAIN c}
InitConc ==
    /\ \E cfg \in ConcConfigs : AgentInit(cfg)
    /\ CallsInit
    /\ gen = NoGen
    /\ session = NoSession
    /\ ui = NoUI

NextConc ==
    \/ \E r \in Retrievers : InitializeBetweenTurns(r)
    \/ CleanupBetweenTurns
    \/ \E t \in Threads : ProcessStep(t)

SpecConc == InitConc /\ [][NextConc]_vars

(***************************************************************************)
(* GroqChatModel._generate invoked directly on any message list            *)
(***************************************************************************)
AnyMessages ==
    BoundedSeq([type : MessageTypes, content : {"p", "q"}], MaxMsgs)

GenerateCall ==
    /\ ~gen.called
    /\ gen' = [called |-> TRUE, messages |-> gen.messages,
               outcome |-> gen.outcome]
                 @@ Generate(gen.messages, gen.outcome)
    /\ UNCHANGED <<agentVars, callVars, lastLifecycle, session, ui>>

InitGen ==
    /\ AgentInit([k \in {"api_key"} |-> "k"])
    /\ CallsInit
    /\ \E messages \in AnyMessages, outcome \in ProviderOutcomes :
          gen = [NoGen EXCEPT !.messages = messages, !.outcome = outcome]
    /\ session = NoSession
    /\ ui = NoUI

NextGen == GenerateCall

SpecGen == InitGen /\ [][NextGen]_vars

(***************************************************************************)
(* Streamlit shell (streamlit_app.py): one action per run of main()        *)
(***************************************************************************)
\* line 76: the default of response.get
UI_DEFAULT_RESPONSE ==
    "I apologize, but I encountered an error processing your message."
\* str(e) of the AttributeError raised by None.process_message
NONE_ATTRIBUTE_ERROR == "'NoneType' object has no attribute 'process_message'"
\* lines 80-82; "[x] " stands for the cross-mark emoji and the space after it
UIErrorEntry(e) == "[x] " \o "Error generating response: " \o e

Entry(role, content) == [role |-> role, content |-> content]

\* what process_message can hand back (lines 212-215, 219-224)
AgentResults ==
    {FallbackResult} \cup {SuccessResult(c, <<>>) : c \in Completions}

\* lines 17-34: None when load_config, MemoryManager or ChatAgent raise
InitializeChatSystem(cfg, collaborators_ok) ==
    IF collaborators_ok /\ ApiKeyConfigured(cfg) THEN "agent" ELSE None

\* lines 53-57: the test that decides whether this run stops after the
\* initialisation block
StopsAfterInit(has_agent_before, agent_now) ==
    ~has_agent_before /\ agent_now = None

\* lines 65-82: the transcript after a submitted prompt
ChatTurn(messages, agent, prompt, result) ==
    LET withUser == Append(messages, Entry("user", prompt))
    IN  IF agent = None
        THEN Append(withUser,
                    Entry("assistant", UIErrorEntry(NONE_ATTRIBUTE_ERROR)))
        ELSE Append(withUser,
                    Entry("assistant",
                          DictGet(result, "response", UI_DEFAULT_RESPONSE)))

\* one run of main(); event is what triggered it: "rerun" (page load or
\* manual rerun), "prompt" (chat_input submitted) or "clear" (button)
Run(event, prompt, cfg, collaborators_ok, result) ==
    /\ event \in {"prompt", "clear"} => ui.rendered
    /\ event = "prompt" => Len(session.messages) + 2 <= MaxTranscript
    /\ LET messages0 == IF session.has_messages THEN session.messages ELSE <<>>
           agent1 == IF session.has_agent THEN session.agent
                     ELSE InitializeChatSystem(cfg, collaborators_ok)
           failed == ui.init_failed \/ (~session.has_agent /\ agent1 = None)
       IN  IF StopsAfterInit(session.has_agent, agent1)
           THEN /\ session' = [has_messages |-> TRUE, messages |-> messages0,
                               has_agent |-> TRUE, agent |-> agent1]
                /\ ui' = [ui EXCEPT !.rendered = FALSE, !.init_failed = failed]
           ELSE /\ session' =
                     [has_messages |-> TRUE,
                      messages |->
                          IF event = "prompt"
                          THEN ChatTurn(messages0, agent1, prompt, result)
                          ELSE IF event = "clear" THEN <<>> ELSE messages0,
                      has_agent |-> TRUE, agent |-> agent1]
                /\ ui' = [rendered |-> TRUE, init_failed |-> failed,
                          turn_after_failure |->
                              ui.turn_after_failure
                                  \/ (failed /\ event = "prompt"),
                          call_after_failure |->
                              ui.call_after_failure
                                  \/ (failed /\ event = "prompt"
                                        /\ agent1 # None)]
    /\ UNCHANGED <<agentVars, callVars, lastLifecycle, gen>>

InitUI ==
    /\ AgentInit([k \in {"api_key"} |-> "k"])
    /\ CallsInit
    /\ gen = NoGen
    /\ session = NoSession
    /\ ui = NoUI

NextUI ==
    \E event \in {"rerun", "prompt", "clear"}, prompt \in UserTexts,
       cfg \in Configs, collaborators_ok \in BOOLEAN, result \in AgentResults :
        Run(event, prompt, cfg, collaborators_ok, result)

SpecUI == InitUI /\ [][NextUI]_vars

(***************************************************************************)
(* process_message run alone, start to end, against given collaborator     *)
(* outcomes (lines 188-224)                                                *)
(***************************************************************************)
ProcessAlone(mem, sp, message, store, chunker, provider) ==
    LET usable == MemoryTruthy(mem) /\ CapabilityCheck(mem)
        context == IF usable THEN store.value ELSE ""
        chunked == usable /\ Truthy(context)
        relevant_docs == IF chunked THEN chunker.docs ELSE <<>>
        g == Generate(AssembleMessages(sp, relevant_docs, message), provider)
    IN  IF usable /\ ~HasGetRelevantContext(mem) THEN FallbackResult
        ELSE IF usable /\ store.raises THEN FallbackResult
        ELSE IF chunked /\ chunker.raises THEN FallbackResult
        ELSE IF g.raised THEN FallbackResult
        ELSE SuccessResult(g.content, relevant_docs)

(***************************************************************************)
(* Properties                                                              *)
(***************************************************************************)
Done(t) == pc[t] = "done"
Result(t) == locals[Frame(t)].result
CollaboratorRaised(t) ==
    obs[t].store.raises \/ obs[t].chunker.raises \/ obs[t].provider.raises

\* C1: process_message never lets an exception escape; every returned result
\* has exactly the two fields and is either the provider's completion with
\* the chunks the chunker produced, in its order, or - after any failure -
\* the fixed apology with an empty chunk list.
C1_ContainedResult ==
    \A t \in Threads :
        /\ pc[t] # "raised"
        /\ Done(t) =>
             /\ DOMAIN Result(t) = {"response", "source_documents"}
             /\ \/ /\ obs[t].exc = "none"
                   /\ ~CollaboratorRaised(t)
                   /\ obs[t].providerCalls = 1
                   /\ Result(t).response = obs[t].provider.value
                   /\ Result(t).source_documents = obs[t].chunker.docs
                \/ /\ obs[t].exc # "none"
                   /\ Result(t).response = FALLBACK_RESPONSE
                   /\ Result(t).source_documents = <<>>
             /\ CollaboratorRaised(t) => obs[t].exc # "none"

\* C1 witness: the provider raised after the chunker had produced two chunks,
\* and the call returned the apology with no chunks
C1_Witness ==
    /\ Done(Caller)
    /\ obs[Caller].exc = "ProviderError"
    /\ Len(obs[Caller].chunker.docs) = 2
    /\ Result(Caller) = FallbackResult

\* C2: a failure of the retriever or of the chunker leaves the turn alive:
\* the context counts as empty, [system, user] is still sent to the model
\* adapter, and a succeeding provider's completion is returned with no chunks.
C2_RetrievalFailureRecovered ==
    \A t \in Threads :
        (Done(t) /\ (obs[t].store.raises \/ obs[t].chunker.raises)) =>
            /\ obs[t].providerCalls = 1
            /\ Len(obs[t].sent) = 2
            /\ ~obs[t].provider.raises =>
                 Result(t) = SuccessResult(obs[t].provider.value, <<>>)

RECURSIVE ExpectedContext(_)
ExpectedContext(docs) ==
    IF Len(docs) = 1 THEN docs[1].page_content
    ELSE docs[1].page_content \o "\n" \o ExpectedContext(Tail(docs))

\* C3: the list handed to the provider is one system message with the
\* configured prompt, then - exactly when there are chunks - one system
\* message "Context:\n" plus the chunk contents joined by newlines in chunk
\* order, then one user message with the user text; length 2 or 3.
C3_MessageOrder ==
    \A t \in Threads :
        (Done(t) /\ obs[t].providerCalls = 1) =>
            LET docs == locals[Frame(t)].relevant_docs
                sent == obs[t].sent
            IN  /\ Len(sent) = IF docs = <<>> THEN 2 ELSE 3
                /\ sent[1] = [role |-> "system", content |-> system_prompt]
                /\ sent[Len(sent)] =
                       [role |-> "user", content |-> locals[Frame(t)].message]
                /\ docs # <<>> =>
                       sent[2] = [role |-> "system",
                                  content |-> "Context:\n" \o ExpectedContext(docs)]

\* C3 witness: a call that sent three messages built from two chunks
C3_Witness ==
    /\ Done(Caller)
    /\ obs[Caller].providerCalls = 1
    /\ Len(locals[Frame(Caller)].relevant_docs) = 2
    /\ Len(obs[Caller].sent) = 3

Unusable(m) == m = None \/ ~HasGetRelevantContext(m)

\* C4: with no usable retriever (nothing bound, or a collaborator without
\* get_relevant_context) and no lifecycle call during the turn, no store call
\* is made, the provider gets exactly [system, user], and a succeeding
\* provider's completion is returned with no chunks; a store that returns
\* empty context gives no chunks and the chunker is not invoked.
C4_AbsentRetriever ==
    \A t \in Threads :
        /\ (Done(t) /\ Unusable(obs[t].mem0) /\ ~obs[t].lifecycle) =>
             /\ obs[t].storeCalls = 0
             /\ obs[t].chunkerCalls = 0
             /\ obs[t].providerCalls = 1
             /\ obs[t].sent =
                    <<[role |-> "system", content |-> system_prompt],
                      [role |-> "user", content |-> locals[Frame(t)].message]>>
             /\ obs[t].exc \in {"none", "ProviderError"}
             /\ ~obs[t].provider.raises =>
                  Result(t) = [response |-> obs[t].provider.value,
                               source_documents |-> <<>>]
        /\ (obs[t].storeCalls = 1 /\ ~obs[t].store.raises
              /\ obs[t].store.value = "") =>
             /\ obs[t].chunkerCalls = 0
             /\ locals[Frame(t)].relevant_docs = <<>>

\* C4 witness: a successful turn with a bound collaborator that lacks
\* get_relevant_context
C4_Witness ==
    /\ Done(Caller)
    /\ obs[Caller].mem0 = "nocap"
    /\ ~obs[Caller].lifecycle
    /\ Result(Caller) = SuccessResult("Hi there", <<>>)

\* C5: construction yields an agent exactly when api_key is present and
\* non-empty; model, temperature and system_prompt take their defaults when
\* the key is absent; without an agent no message is ever processed.
C5_Construction ==
    /\ constructed <=> ("api_key" \in DOMAIN config /\ config["api_key"] # "")
    /\ constructed =>
         /\ llm.api_key = config["api_key"]
         /\ llm.model = IF "model" \in DOMAIN config THEN config["model"]
                        ELSE "mixtral-8x7b-32768"
         /\ llm.temperature = IF "temperature" \in DOMAIN config
                              THEN config["temperature"] ELSE "0.7"
         /\ system_prompt = IF "system_prompt" \in DOMAIN config
                            THEN config["system_prompt"]
                            ELSE DEFAULT_SYSTEM_PROMPT
    /\ ~constructed => \A t \in Threads : pc[t] = "idle"
    /\ \A t \in Threads : obs[t].exc # "ValueError"

\* C5 witness: an agent built from a config holding only api_key has served
\* a turn with the default model, temperature and prompt
C5_Witness ==
    /\ constructed
    /\ DOMAIN config = {"api_key"}
    /\ llm = GroqChatModel("k", DEFAULT_MODEL, DEFAULT_TEMPERATURE)
    /\ Done(Caller)

\* C6: the bound retriever is the argument of the most recent initialize,
\* and none if there was no lifecycle call or the last one was cleanup.
C6_Lifecycle ==
    constructed =>
        memory = IF lastLifecycle.op = "initialize" THEN lastLifecycle.arg
                 ELSE None

\* C6 witness: a second initialize in a row replaced the binding
C6_Witness ==
    /\ lastLifecycle.op = "initialize"
    /\ lastLifecycle.prev = "initialize"
    /\ memory = "storeB"
    /\ obs[Caller].queried = "storeA"

\* C6 second case: cleanup twice in a row
C6_WitnessCleanupTwice ==
    /\ lastLifecycle.op = "cleanup"
    /\ lastLifecycle.prev = "cleanup"
    /\ memory = None

KnownTypes == {"HumanMessage", "AIMessage", "SystemMessage"}
RoleOf(type) ==
    CASE type = "HumanMessage" -> "user"
      [] type = "AIMessage" -> "assistant"
      [] type = "SystemMessage" -> "system"
IsKnown(m) == m.type \in KnownTypes

\* C7: _generate sends the messages of the three known classes, in their
\* order, with roles user/assistant/system and unchanged content, drops all
\* others, calls the provider once, and re-raises (after logging) exactly
\* when the provider raised.
C7_RoleTranslation ==
    gen.called =>
        LET kept == SelectSeq(gen.messages, IsKnown)
        IN  /\ Len(gen.chat_messages) = Len(kept)
            /\ \A i \in 1..Len(kept) :
                 gen.chat_messages[i] =
                     [role |-> RoleOf(kept[i].type), content |-> kept[i].content]
            /\ gen.calls = 1
            /\ gen.raised = gen.outcome.raises
            /\ gen.logged = gen.raised
            /\ ~gen.raised => gen.content = gen.outcome.value

\* C7 witness: a message of another class between two known ones was
\* dropped and the provider's error was propagated
C7_Witness ==
    /\ gen.called
    /\ Len(gen.messages) = 3
    /\ gen.messages[2].type = "ChatMessage"
    /\ Len(gen.chat_messages) = 2
    /\ gen.raised

\* C8 (state part): with no lifecycle call during the turns, every call
\* returns what it would return run alone on the same collaborator outcomes.
C8_Isolated ==
    \A t \in Threads :
        Done(t) =>
            Result(t) = ProcessAlone(obs[t].mem0, system_prompt,
                                     locals[Frame(t)].message, obs[t].store,
                                     obs[t].chunker, obs[t].provider)

\* C8: process_message writes none of the agent's attributes, and concurrent
\* calls each return their run-alone result.
C8_NoSharedWrites ==
    /\ []C8_Isolated
    /\ [][(\E t \in Threads : ProcessStep(t)) => UNCHANGED agentVars]_vars

\* C8 witness: two overlapping calls with different texts, one answered by
\* the provider with chunks, the other ended by the fallback
C8_Witness ==
    /\ Done("t1") /\ Done("t2")
    /\ locals[Frame("t1")].message # locals[Frame("t2")].message
    /\ Result("t1") = FallbackResult
    /\ Len(Result("t2").source_documents) = 2

RawExceptionEntry(m) ==
    m.role = "assistant" /\ m.content \notin (Completions \cup {FALLBACK_RESPONSE})

\* C9: once initialize_chat_system has failed in a session, no later run
\* accepts a chat turn or calls process_message, and every assistant entry of
\* the transcript is a completion or the apology, never an exception text.
C9_FailedInitUnusable ==
    /\ ui.init_failed => ~ui.turn_after_failure /\ ~ui.call_after_failure
    /\ \A i \in 1..Len(session.messages) : ~RawExceptionEntry(session.messages[i])

\* C10: a call that overlaps cleanup() or initialize() ends as if the
\* lifecycle call came before or after the retrieval step: when no
\* collaborator raised, the provider was called and its completion returned,
\* never the fallback.
C10_AtomicRetrieval ==
    \A t \in Threads :
        (Done(t) /\ ~CollaboratorRaised(t)) =>
            /\ obs[t].providerCalls = 1
            /\ Result(t).response = obs[t].provider.value
            /\ Result(t) # FallbackResult

====
